---- MODULE Spec2Model ----
(***************************************************************************)
(* Model of the FastAPI / Elasticsearch document service:                  *)
(*   app/models/document.py            BaseDocument.save, Article, User    *)
(*   app/services/document_service.py  DocumentService                     *)
(*   app/routers/documents.py          the /documents endpoints            *)
(*   app/routers/health.py             the /health endpoints               *)
(*   app/core/elasticsearch.py         check_elasticsearch_health          *)
(*                                                                         *)
(* Text and keyword values are strings; StandardAnalyzer gives the tokens  *)
(* the backend indexes a string under.  The rating is counted in tenths.   *)
(* An optional value is a tuple: <<>> is Python's None and <<v>> is the    *)
(* value v.  A datetime is a reading of the wall clock, which may stand    *)
(* still or step back between two readings; NoTime is an unset one, and a  *)
(* stored timestamp is its ISO string.                                     *)
(***************************************************************************)
EXTENDS Integers, Sequences, FiniteSets, TLC

VARIABLES
    index,      \* the articles index: stored id -> _source of the document
    indexExists, \* whether the backend has an articles index at all
    seqNo,      \* the articles index: stored id -> _seq_no of the document
    docOrder,   \* the stored ids in the order the backend enumerates them
    users,      \* the users index: stored id -> _source of the document
    nextId,     \* how many ids the backend has generated so far, plus one
    cluster,    \* what the backend reports: green, yellow, red, or down
    last,       \* the request answered last and its response
    prevIndex,  \* the articles index before the step that answered it
    occ,        \* whether the client library's save sends if_seq_no
    wk,         \* per worker process: the handler its event loop is running
    pending,    \* per worker process: accepted requests not yet started
    arrived     \* how many requests have arrived at idle workers so far

vars == <<index, indexExists, seqNo, docOrder, users, nextId, cluster, last,
          prevIndex, occ, wk, pending, arrived>>

----------------------------------------------------------------------------
(* Bounds of the model. *)

MaxDocs == 3
MaxClock == 2
NumWorkers == 2
MaxOffset == 3
MaxRequests == 2

Workers == 1..NumWorkers

NoTime == 0
NoId == 0
None == <<>>
Some(v) == <<v>>

\* what datetime.now() may return: naive local wall-clock time, so that a
\* later reading may be greater than, equal to or less than an earlier one
Readings == 1..MaxClock

----------------------------------------------------------------------------
(* Request bodies. *)

ArticleFields ==
    {"title", "content", "author", "category", "tags", "views", "rating"}

\* POST /documents/articles bodies; an omitted optional field is None
ArticleBodies ==
    { [title |-> "Test Article", content |-> "Python test",
       author |-> "Test Author", category |-> "technology",
       tags |-> Some(<<"python", "elasticsearch">>), views |-> Some(100),
       rating |-> Some(45)],
      [title |-> "Search", content |-> "Search basics",
       author |-> "B", category |-> "science",
       tags |-> None, views |-> None, rating |-> None] }

\* the test suite's sample article alone, for the runs that interleave the
\* requests of several workers
SampleArticleBodies == {b \in ArticleBodies : b.tags # None}

\* the value a PUT body may carry in each field
UpdateValue ==
    [title |-> "Python Search", content |-> "", author |-> "",
     category |-> "science", tags |-> <<>>, views |-> 0, rating |-> 30]

\* PUT /documents/articles/{id} bodies: every field is null or carries a value
UpdateBodies ==
    { [f \in ArticleFields |-> IF f \in S THEN Some(UpdateValue[f]) ELSE None] :
        S \in SUBSET ArticleFields }

\* a few of them, for the runs that interleave other requests
SampleUpdateBodies ==
    { b \in UpdateBodies :
        {f \in ArticleFields : b[f] # None} \in
            { {"views"}, ArticleFields } }

UserBodies ==
    { [username |-> "testuser", email |-> "test@example.com",
       full_name |-> "Test User", bio |-> Some("A test user"),
       is_active |-> None] }

----------------------------------------------------------------------------
(* app/routers/documents.py: the request models. *)

\* ArticleCreate(...).dict(): the defaults fill the omitted fields
ArticleCreate(body) ==
    [title |-> body.title, content |-> body.content, author |-> body.author,
     category |-> body.category,
     tags |-> IF body.tags = None THEN <<>> ELSE body.tags[1],
     views |-> IF body.views = None THEN 0 ELSE body.views[1],
     rating |-> IF body.rating = None THEN 0 ELSE body.rating[1]]

UserCreate(body) ==
    [username |-> body.username, email |-> body.email,
     full_name |-> body.full_name,
     bio |-> IF body.bio = None THEN "" ELSE body.bio[1],
     is_active |-> IF body.is_active = None THEN "true" ELSE body.is_active[1]]

\* Python truthiness of a value of field (or search parameter) f: a number
\* other than 0, a list other than [], a string other than ''
Truthy(f, v) ==
    CASE f \in {"views", "rating"} -> v # 0
      [] f = "tags" -> v # <<>>
      [] OTHER -> v # ""

\* a slip: the comprehension tests "if v" instead of "if v is not None"
UpdateDataTruthy(body) ==
    [k \in {f \in DOMAIN body : body[f] # None /\ Truthy(f, body[f][1])}
        |-> body[k][1]]

\* {k: v for k, v in article_update.dict().items() if v is not None}
UpdateData(body) ==
    [k \in {f \in DOMAIN body : body[f] # None} |-> body[k][1]]

----------------------------------------------------------------------------
(* app/models/document.py *)

\* Article(**article_data): a document that was never saved
NewArticle(data) ==
    [title |-> data.title, content |-> data.content, author |-> data.author,
     category |-> data.category, tags |-> data.tags, views |-> data.views,
     rating |-> data.rating, created_at |-> NoTime, updated_at |-> NoTime]

NewUser(data) ==
    [username |-> data.username, email |-> data.email,
     full_name |-> data.full_name, bio |-> data.bio,
     is_active |-> data.is_active, created_at |-> NoTime,
     updated_at |-> NoTime]

\* BaseDocument.save, up to the call of Document.save: t1 and t2 are the
\* two readings of datetime.now(); the first is made only when created_at
\* is unset
Save(doc, t1, t2) ==
    [doc EXCEPT !.created_at = IF doc.created_at = NoTime THEN t1 ELSE @,
                !.updated_at = t2]

\* for key, value in update_data.items(): setattr(article, key, value)
SetAttrs(article, update_data) ==
    [f \in DOMAIN article |->
        IF f \in DOMAIN update_data THEN update_data[f] ELSE article[f]]

\* datetime.isoformat()
IsoFormat(t) == <<"iso", t>>

\* the Date field's reading of a stored timestamp
ParseDate(s) == s[2]

DateFields == {"created_at", "updated_at"}

\* the fields declared multi=True, per document class
ArticleMulti == {"tags"}
UserMulti == {}

\* Document.save sends to_dict(skip_empty=True): an empty list is left out,
\* a datetime goes as its ISO string
ToDict(doc, multi) ==
    [f \in {g \in DOMAIN doc : ~(g \in multi /\ doc[g] = <<>>)} |->
        IF f \in DateFields THEN IsoFormat(doc[f]) ELSE doc[f]]

\* Document.get builds the document from the stored _source: the Date
\* fields are parsed, a multi field the _source lacks reads as []
FromEs(source, multi) ==
    [f \in DOMAIN source \cup multi |->
        IF f \notin DOMAIN source THEN <<>>
        ELSE IF f \in DateFields THEN ParseDate(source[f])
        ELSE source[f]]

----------------------------------------------------------------------------
(* The backend, as the client library reaches it. *)

Reachable == cluster # "down"

Stored(idx, id) == id \in DOMAIN idx

\* a slip: the write is sent with op_type=create and never replaces a
\* stored document
IndexWriteIfAbsent(idx, id, doc) ==
    [i \in DOMAIN idx \cup {id} |-> IF i \in DOMAIN idx THEN idx[i] ELSE doc]

\* es.index: the document is stored whole under id
IndexWrite(idx, id, doc) ==
    [i \in DOMAIN idx \cup {id} |-> IF i = id THEN doc ELSE idx[i]]

\* a slip: the fetched document is never deleted
IndexDeleteNothing(idx, id) == idx

\* es.delete
IndexDelete(idx, id) == [i \in DOMAIN idx \ {id} |-> idx[i]]

Remove(seq, id) == SelectSeq(seq, LAMBDA x : x # id)

\* a written document becomes the newest one the backend enumerates
Reorder(order, id) == Append(Remove(order, id), id)

\* every write of a document gives it a new sequence number
BumpSeq(sq, id) ==
    [i \in DOMAIN sq \cup {id} |->
        IF i \in DOMAIN sq /\ i # id THEN sq[i]
        ELSE IF i \in DOMAIN sq THEN sq[i] + 1 ELSE 1]

\* Article.get(id=...) / User.get(id=...) of a stored id
ArticleGet(idx, id) == FromEs(idx[id], ArticleMulti)
UserGet(idx, id) == FromEs(idx[id], UserMulti)

\* ArticleResponse(id=article.meta.id, title=article.title, ...)
ArticleResponse(id, a) ==
    [id |-> id, title |-> a.title, content |-> a.content, author |-> a.author,
     category |-> a.category, tags |-> a.tags, views |-> a.views,
     rating |-> a.rating, created_at |-> IsoFormat(a.created_at),
     updated_at |-> IsoFormat(a.updated_at)]

UserResponse(id, u) ==
    [id |-> id, username |-> u.username, email |-> u.email,
     full_name |-> u.full_name, bio |-> u.bio, is_active |-> u.is_active,
     created_at |-> IsoFormat(u.created_at),
     updated_at |-> IsoFormat(u.updated_at)]

\* what the last request was and how it was answered: svc is the service
\* call's outcome ("ok", "none" for None or False, "raise"), ret the list a
\* search returned to the router, body the response's documents; fetched is
\* the _source that the Article.get of an update or a delete returned, doc
\* the document an update then sent to be stored, and stale whether the
\* backend accepted another write or delete of the document in between
Response(op, id, payload, svc, status, body) ==
    [op |-> op, id |-> id, payload |-> payload, svc |-> svc, ret |-> <<>>,
     fetched |-> None, doc |-> None, stale |-> FALSE, status |-> status,
     body |-> body]

NoResponse == Response("", NoId, <<>>, "", 0, <<>>)

\* an HTTPException raised inside "try: ... except Exception as e: raise
\* HTTPException(status_code=500, ...)" is itself caught there
StatusRaisedInTry(raised) == 500

----------------------------------------------------------------------------
(* app/core/elasticsearch.py *)

\* a slip: only a green cluster counts as healthy
HealthOnlyGreen(c) == c = "green"

\* check_elasticsearch_health: a failing call is caught and reported False
check_elasticsearch_health(c) ==
    IF c = "down" THEN FALSE ELSE c \in {"green", "yellow"}

----------------------------------------------------------------------------
(* Worker processes.  Every endpoint is an "async def" that calls the      *)
(* blocking client (Article.get, article.save, article.delete,             *)
(* search.execute) without an await, so a worker's event loop runs one     *)
(* handler from its first line to its response and starts no other request *)
(* meanwhile.  Handlers of different worker processes interleave: between  *)
(* a handler's backend calls, and between its reading of the clock and the *)
(* backend call that follows, other workers' calls reach the backend.      *)

\* stale records, for a worker that holds a fetched document, whether the
\* backend has accepted another write or delete of that document since; no
\* handler reads it
IdleWorker ==
    [pc |-> "idle", req |-> <<>>, fetched |-> <<>>, article |-> <<>>,
     seq |-> 0, stale |-> FALSE]

Request(op, id, body) == [op |-> op, id |-> id, body |-> body]

\* the event loop of worker w, running no handler, takes up request r: the
\* oldest request it has accepted or, with none waiting, one that arrives
Takes(w, r) ==
    /\ wk[w].pc = "idle"
    /\ IF pending[w] = <<>>
       THEN /\ arrived < MaxRequests
            /\ arrived' = arrived + 1
            /\ UNCHANGED pending
       ELSE /\ Head(pending[w]) = r
            /\ pending' = [pending EXCEPT ![w] = Tail(@)]
            /\ UNCHANGED arrived

\* whether worker w can take up a request at all
Free(w) ==
    /\ wk[w].pc = "idle"
    /\ pending[w] = <<>> => arrived < MaxRequests

\* worker w runs on in the handler of request r
Holds(w, pc, r, fetched, article, seq) ==
    wk' = [wk EXCEPT ![w] =
            [pc |-> pc, req |-> r, fetched |-> fetched, article |-> article,
             seq |-> seq, stale |-> FALSE]]

\* worker w has answered; wrote tells whether the backend accepted a write
\* or delete of document id in this step, which every other worker holding
\* a fetched copy of that document has then missed
Answers(w, wrote, id) ==
    wk' = [v \in Workers |->
            IF v = w THEN IdleWorker
            ELSE IF wrote /\ wk[v].pc \in {"fetched", "save", "delete"}
                        /\ wk[v].req.id = id
            THEN [wk[v] EXCEPT !.stale = TRUE]
            ELSE wk[v]]

\* the creates whose write has not reached the backend yet
Creating == {v \in Workers : wk[v].pc \in {"index", "index_user"}}

\* Document.save of a fetched document: when the client library sends the
\* fetched sequence number (if_seq_no), the backend accepts the write only
\* if the stored document still has it
PersistAccepted(o, fetched, sq, id) ==
    ~o \/ (id \in DOMAIN sq /\ sq[id] = fetched)

\* Document.delete of a fetched document: with if_seq_no the backend answers
\* a changed or missing document with a conflict, without it a missing one
\* with not found
DeleteOutcome(o, fetched, sq, id) ==
    IF id \in DOMAIN sq /\ PersistAccepted(o, fetched, sq, id) THEN "deleted"
    ELSE IF o THEN "conflict"
    ELSE "missing"

----------------------------------------------------------------------------
(* The endpoints.  A handler is one step for each backend call that is     *)
(* served, and one more where it reads the clock between two calls.        *)

\* POST /documents/articles, up to the backend call of article.save():
\* t1 and t2 are the two readings of the clock in BaseDocument.save
create_article(w, body, t1, t2) ==
    /\ nextId + Cardinality(Creating) <= MaxDocs
    /\ Takes(w, Request("create_article", NoId, body))
    /\ Holds(w, "index", Request("create_article", NoId, body), <<>>,
             Save(NewArticle(ArticleCreate(body)), t1, t2), 0)
    /\ UNCHANGED <<index, indexExists, seqNo, docOrder, users, nextId,
                   cluster, last, prevIndex, occ>>

\* POST /documents/articles, from article.save() returning or raising to
\* the response: the backend generates the id when it stores the document
CreateArticleReturns(w) ==
    LET r == wk[w].req
        article == wk[w].article
        id == nextId
    IN  /\ wk[w].pc = "index"
        /\ prevIndex' = index
        /\ Answers(w, FALSE, NoId)
        /\ IF Reachable
           THEN /\ index' = IndexWrite(index, id,
                                        ToDict(article, ArticleMulti))
                /\ indexExists' = TRUE
                /\ seqNo' = BumpSeq(seqNo, id)
                /\ docOrder' = Reorder(docOrder, id)
                /\ nextId' = nextId + 1
                /\ last' = Response("create_article", id, r.body, "ok", 200,
                                    <<ArticleResponse(id, article)>>)
           ELSE /\ UNCHANGED <<index, indexExists, seqNo, docOrder, nextId>>
                /\ last' = Response("create_article", NoId, r.body, "raise",
                                    500, <<>>)
        /\ UNCHANGED <<users, cluster, occ, pending, arrived>>

\* GET /documents/articles/{article_id}
get_article(w, id) ==
    /\ Takes(w, Request("get_article", id, <<>>))
    /\ prevIndex' = index
    /\ last' =
        IF ~Reachable
        THEN Response("get_article", id, <<>>, "raise", 500, <<>>)
        ELSE IF ~Stored(index, id)
        THEN Response("get_article", id, <<>>, "none", 404, <<>>)
        ELSE Response("get_article", id, <<>>, "ok", 200,
                      <<ArticleResponse(id, ArticleGet(index, id))>>)
    /\ UNCHANGED <<index, indexExists, seqNo, docOrder, users, nextId,
                   cluster, occ, wk>>

\* PUT /documents/articles/{article_id}, until Article.get has returned:
\* the handler answers when the call raised, and otherwise holds the
\* document it fetched
update_article(w, id, body) ==
    /\ Takes(w, Request("update_article", id, body))
    /\ IF ~Reachable
       THEN /\ last' = Response("update_article", id, body, "raise", 500, <<>>)
            /\ prevIndex' = index
            /\ UNCHANGED wk
       ELSE IF ~Stored(index, id)
       THEN /\ last' = Response("update_article", id, body, "none",
                                StatusRaisedInTry(404), <<>>)
            /\ prevIndex' = index
            /\ UNCHANGED wk
       ELSE /\ Holds(w, "fetched", Request("update_article", id, body),
                     index[id], ArticleGet(index, id), seqNo[id])
            /\ UNCHANGED <<last, prevIndex>>
    /\ UNCHANGED <<index, indexExists, seqNo, docOrder, users, nextId,
                   cluster, occ>>

\* PUT /documents/articles/{article_id}, from Article.get's return to the
\* backend call of article.save(): the handler sets the body's fields and
\* BaseDocument.save reads the clock, t
ArticleSave(w, t) ==
    /\ wk[w].pc = "fetched"
    /\ wk' = [wk EXCEPT ![w].pc = "save",
                        ![w].article =
                            Save(SetAttrs(@, UpdateData(wk[w].req.body)),
                                 t, t)]
    /\ UNCHANGED <<index, indexExists, seqNo, docOrder, users, nextId,
                   cluster, last, prevIndex, occ, pending, arrived>>

\* PUT /documents/articles/{article_id}, from article.save() returning or
\* raising to the response
SaveReturns(w) ==
    LET r == wk[w].req
        accepted == Reachable /\ PersistAccepted(occ, wk[w].seq, seqNo, r.id)
        answered ==
            [Response("update_article", r.id, r.body, "raise", 500, <<>>)
                EXCEPT !.fetched = Some(wk[w].fetched),
                       !.doc = Some(wk[w].article),
                       !.stale = wk[w].stale]
    IN  /\ wk[w].pc = "save"
        /\ prevIndex' = index
        /\ Answers(w, accepted, r.id)
        /\ IF accepted
           THEN /\ index' = IndexWrite(index, r.id,
                                        ToDict(wk[w].article, ArticleMulti))
                /\ seqNo' = BumpSeq(seqNo, r.id)
                /\ docOrder' = Reorder(docOrder, r.id)
                /\ last' =
                    [answered EXCEPT
                        !.svc = "ok", !.status = 200,
                        !.body = <<ArticleResponse(r.id, wk[w].article)>>]
           ELSE /\ last' = answered
                /\ UNCHANGED <<index, seqNo, docOrder>>
        /\ UNCHANGED <<indexExists, users, nextId, cluster, occ, pending,
                       arrived>>

\* DELETE /documents/articles/{article_id}, until Article.get has returned:
\* the handler answers when the call raised, and otherwise waits in
\* article.delete()
delete_article(w, id) ==
    /\ Takes(w, Request("delete_article", id, <<>>))
    /\ IF ~Reachable
       THEN /\ last' = Response("delete_article", id, <<>>, "raise", 500, <<>>)
            /\ prevIndex' = index
            /\ UNCHANGED wk
       ELSE IF ~Stored(index, id)
       THEN /\ last' = Response("delete_article", id, <<>>, "none",
                                StatusRaisedInTry(404), <<>>)
            /\ prevIndex' = index
            /\ UNCHANGED wk
       ELSE /\ Holds(w, "delete", Request("delete_article", id, <<>>),
                     index[id], ArticleGet(index, id), seqNo[id])
            /\ UNCHANGED <<last, prevIndex>>
    /\ UNCHANGED <<index, indexExists, seqNo, docOrder, users, nextId,
                   cluster, occ>>

\* DELETE /documents/articles/{article_id}, from article.delete() returning
\* or raising to the response: NotFoundError makes the service return False
DeleteReturns(w) ==
    LET r == wk[w].req
        outcome ==
            IF ~Reachable THEN "unreachable"
            ELSE DeleteOutcome(occ, wk[w].seq, seqNo, r.id)
        answered ==
            [Response("delete_article", r.id, <<>>, "raise", 500, <<>>)
                EXCEPT !.fetched = Some(wk[w].fetched),
                       !.stale = wk[w].stale]
    IN  /\ wk[w].pc = "delete"
        /\ prevIndex' = index
        /\ Answers(w, outcome = "deleted", r.id)
        /\ IF outcome = "deleted"
           THEN /\ index' = IndexDelete(index, r.id)
                /\ seqNo' = [i \in DOMAIN seqNo \ {r.id} |-> seqNo[i]]
                /\ docOrder' = Remove(docOrder, r.id)
                /\ last' = [answered EXCEPT !.svc = "ok", !.status = 200]
           ELSE /\ last' =
                    IF outcome = "missing"
                    THEN [answered EXCEPT
                            !.svc = "none", !.status = StatusRaisedInTry(404)]
                    ELSE answered
                /\ UNCHANGED <<index, seqNo, docOrder>>
        /\ UNCHANGED <<indexExists, users, nextId, cluster, occ, pending,
                       arrived>>

\* POST /documents/users, up to the backend call of user.save(): t1 and t2
\* are the two readings of the clock in BaseDocument.save
create_user(w, body, t1, t2) ==
    /\ nextId + Cardinality(Creating) <= MaxDocs
    /\ Takes(w, Request("create_user", NoId, body))
    /\ Holds(w, "index_user", Request("create_user", NoId, body), <<>>,
             Save(NewUser(UserCreate(body)), t1, t2), 0)
    /\ UNCHANGED <<index, indexExists, seqNo, docOrder, users, nextId,
                   cluster, last, prevIndex, occ>>

\* POST /documents/users, from user.save() returning or raising to the
\* response
CreateUserReturns(w) ==
    LET r == wk[w].req
        user == wk[w].article
        id == nextId
    IN  /\ wk[w].pc = "index_user"
        /\ prevIndex' = index
        /\ Answers(w, FALSE, NoId)
        /\ IF Reachable
           THEN /\ users' = IndexWrite(users, id, ToDict(user, UserMulti))
                /\ nextId' = nextId + 1
                /\ last' = Response("create_user", id, r.body, "ok", 200,
                                    <<UserResponse(id, user)>>)
           ELSE /\ UNCHANGED <<users, nextId>>
                /\ last' = Response("create_user", NoId, r.body, "raise",
                                    500, <<>>)
        /\ UNCHANGED <<index, indexExists, seqNo, docOrder, cluster, occ,
                       pending, arrived>>

\* GET /documents/users/{user_id}
get_user(w, id) ==
    /\ Takes(w, Request("get_user", id, <<>>))
    /\ prevIndex' = index
    /\ last' =
        IF ~Reachable
        THEN Response("get_user", id, <<>>, "raise", 500, <<>>)
        ELSE IF ~Stored(users, id)
        THEN Response("get_user", id, <<>>, "none", 404, <<>>)
        ELSE Response("get_user", id, <<>>, "ok", 200,
                      <<UserResponse(id, UserGet(users, id))>>)
    /\ UNCHANGED <<index, indexExists, seqNo, docOrder, users, nextId,
                   cluster, occ, wk>>

\* GET /health/
health_check(w) ==
    /\ Takes(w, Request("health_check", NoId, <<>>))
    /\ prevIndex' = index
    /\ last' =
        IF ~check_elasticsearch_health(cluster)
        THEN Response("health_check", NoId, <<>>, "none", 503, <<>>)
        ELSE Response("health_check", NoId, <<>>, "ok", 200,
                      <<[status |-> "healthy", elasticsearch |-> "connected"]>>)
    /\ UNCHANGED <<index, indexExists, seqNo, docOrder, users, nextId,
                   cluster, occ, wk>>

\* GET /health/elasticsearch
elasticsearch_health(w) ==
    /\ Takes(w, Request("elasticsearch_health", NoId, <<>>))
    /\ prevIndex' = index
    /\ last' =
        LET es_healthy == check_elasticsearch_health(cluster)
        IN  Response("elasticsearch_health", NoId, <<>>,
                     IF es_healthy THEN "ok" ELSE "none", 200,
                     <<[elasticsearch |->
                          IF es_healthy THEN "healthy" ELSE "unhealthy"]>>)
    /\ UNCHANGED <<index, indexExists, seqNo, docOrder, users, nextId,
                   cluster, occ, wk>>

\* the backend's state changes under the service; the response handled
\* before belongs to the state it was given in
ClusterBecomes(c) ==
    /\ c # cluster
    /\ cluster' = c
    /\ last' = NoResponse
    /\ prevIndex' = index
    /\ UNCHANGED <<index, indexExists, seqNo, docOrder, users, nextId, occ,
                   wk, pending, arrived>>

----------------------------------------------------------------------------
(* DocumentService.search_articles and GET /documents/articles *)

MinLimit == 1
MaxLimit == 100

Range(seq) == {seq[i] : i \in 1..Len(seq)}

Min(a, b) == IF a < b THEN a ELSE b

\* the standard analyzer, which the backend applies to every string field
\* of an index that a first write created (no mapping is ever put: the
\* service never calls Article.init()) and to the text of a multi_match
\* query: the lower-cased words of a string, in order; a string of blanks
\* or punctuation only has none
StandardAnalyzer(text) ==
    CASE text = "" -> <<>>
      [] text = " " -> <<>>
      [] text = "technology" -> <<"technology">>
      [] text = "science" -> <<"science">>
      [] text = "Technology News" -> <<"technology", "news">>
      [] text = "elasticsearch" -> <<"elasticsearch">>
      [] text = "Python 3" -> <<"python", "3">>
      [] text = "python" -> <<"python">>
      [] text = "Python" -> <<"python">>
      [] text = "Search" -> <<"search">>
      [] text = "python article" -> <<"python", "article">>
      [] text = "Test Article" -> <<"test", "article">>
      [] text = "Python test" -> <<"python", "test">>
      [] text = "Python Search" -> <<"python", "search">>
      [] text = "Search basics" -> <<"search", "basics">>
      [] text = "Elasticsearch article" -> <<"elasticsearch", "article">>

\* how many of the query's tokens a text field holds
TokenHits(query, text) ==
    Cardinality(Range(StandardAnalyzer(query))
                    \cap Range(StandardAnalyzer(text)))

\* Q('multi_match', query=query, fields=['title^2', 'content']): the best
\* field's score, the title's counted twice; 0 is no match, which is what a
\* query without tokens gives every document
Score(query, d) ==
    LET t == 2 * TokenHits(query, d.title)
        c == TokenHits(query, d.content)
    IN  IF t > c THEN t ELSE c

\* the terms the backend indexes a stored string under
Terms(text) == Range(StandardAnalyzer(text))

\* if category: search = search.filter('term', category=category): the
\* given value, as it is, is looked up among the terms of the stored one
CategoryFilter(category, d) ==
    IF category # None /\ Truthy("category", category[1])
    THEN category[1] \in Terms(d.category)
    ELSE TRUE

\* if tags: search = search.filter('terms', tags=tags): one of the given
\* values, as it is, is among the terms of one of the stored tags
TagsFilter(tags, d) ==
    IF tags # None /\ Truthy("tags", tags[1])
    THEN /\ "tags" \in DOMAIN d
         /\ \E i \in 1..Len(d.tags) : Terms(d.tags[i]) \cap Range(tags[1]) # {}
    ELSE TRUE

\* if query: search = search.query(Q('multi_match', ...))
QueryGiven(query) == query # None /\ Truthy("query", query[1])

Matches(idx, query, category, tags, id) ==
    /\ QueryGiven(query) => Score(query[1], idx[id]) > 0
    /\ CategoryFilter(category, idx[id])
    /\ TagsFilter(tags, idx[id])

RECURSIVE ByScore(_, _, _, _)
\* the ids of seq with score s, then those with the lower scores, each group
\* in the backend's own order
ByScore(idx, query, seq, s) ==
    IF s = 0 THEN <<>>
    ELSE SelectSeq(seq, LAMBDA id : Score(query, idx[id]) = s)
         \o ByScore(idx, query, seq, s - 1)

\* the ids of all hits in the order the backend returns them: by relevance
\* when a query is given, in the backend's own order otherwise
Hits(idx, order, query, category, tags) ==
    LET matching ==
            SelectSeq(order,
                      LAMBDA id : Matches(idx, query, category, tags, id))
    IN  IF QueryGiven(query)
        THEN ByScore(idx, query[1], matching,
                     2 * Len(StandardAnalyzer(query[1])))
        ELSE matching

\* a slip: search[offset:limit]
SliceToLimit(seq, offset, limit) ==
    SubSeq(seq, offset + 1, Min(limit, Len(seq)))

\* search = search[offset:offset + limit]
Slice(seq, offset, limit) ==
    SubSeq(seq, offset + 1, Min(offset + limit, Len(seq)))

\* Search(index=...) names no document class, so response.hits holds Hit
\* objects: the id and the _source as the backend stores it
Hit(idx, id) == [id |-> id, source |-> idx[id]]

\* return [hit for hit in response.hits]
SearchResult(idx, order, query, category, tags, limit, offset) ==
    LET ids == Slice(Hits(idx, order, query, category, tags), offset, limit)
    IN  [i \in 1..Len(ids) |-> Hit(idx, ids[i])]

\* the router's ArticleResponse(...) of a hit raises AttributeError: at
\* article.tags when the _source has no tags, at created_at.isoformat()
\* because the timestamp of a _source is a string
ResponseRaises(hit) ==
    \/ "tags" \notin DOMAIN hit.source
    \/ hit.source.created_at = IsoFormat(ParseDate(hit.source.created_at))

SearchParams(query, category, tags, limit, offset) ==
    [query |-> query, category |-> category, tags |-> tags, limit |-> limit,
     offset |-> offset]

\* GET /documents/articles: the search of an index that was never created
\* raises as an unreachable backend does
search_articles(w, query, category, tags, limit, offset) ==
    LET params == SearchParams(query, category, tags, limit, offset)
        articles == SearchResult(index, docOrder, query, category, tags,
                                 limit, offset)
        returned ==
            [Response("search_articles", NoId, params, "ok", 200, <<>>)
                EXCEPT !.ret = articles]
    IN  /\ Takes(w, Request("search_articles", NoId, params))
        /\ prevIndex' = index
        /\ last' =
            IF limit < MinLimit \/ limit > MaxLimit \/ offset < 0
            THEN Response("search_articles", NoId, params, "", 422, <<>>)
            ELSE IF ~Reachable \/ ~indexExists
            THEN Response("search_articles", NoId, params, "raise", 500, <<>>)
            ELSE IF \E i \in 1..Len(articles) : ResponseRaises(articles[i])
            THEN [returned EXCEPT !.status = 500]
            ELSE [returned EXCEPT
                    !.body = [i \in 1..Len(articles) |->
                                ArticleResponse(articles[i].id,
                                                articles[i].source)]]
        /\ UNCHANGED <<index, indexExists, seqNo, docOrder, users, nextId,
                       cluster, occ, wk>>

----------------------------------------------------------------------------
(* The article endpoints from the service's start, requests arriving at    *)
(* any worker process while the backend comes and goes.                    *)

EmptyIndex == [i \in {} |-> <<>>]

Init ==
    /\ index = EmptyIndex
    /\ indexExists = FALSE
    /\ seqNo = EmptyIndex
    /\ docOrder = <<>>
    /\ users = EmptyIndex
    /\ nextId = 1
    /\ cluster = "green"
    /\ last = NoResponse
    /\ prevIndex = EmptyIndex
    /\ occ \in BOOLEAN
    /\ wk = [w \in Workers |-> IdleWorker]
    /\ pending = [w \in Workers |-> <<>>]
    /\ arrived = 0

\* the ids a request may name: those handed out so far and the next one,
\* which no document has
KnownIds == 1..nextId

\* a request arrives at worker w, which is idle and runs its handler up to
\* the return of the first backend call
Starts(w) ==
    /\ Free(w)
    /\ \/ \E body \in SampleArticleBodies, t1, t2 \in Readings :
            create_article(w, body, t1, t2)
       \/ \E id \in KnownIds : get_article(w, id)
       \/ \E id \in KnownIds, body \in SampleUpdateBodies :
            update_article(w, id, body)
       \/ \E id \in KnownIds : delete_article(w, id)

\* the handler that worker w has started runs on
Continues(w) ==
    \/ CreateArticleReturns(w)
    \/ \E t \in Readings : ArticleSave(w, t)
    \/ SaveReturns(w)
    \/ DeleteReturns(w)

BackendChanges == \E c \in {"green", "down"} : ClusterBecomes(c)

Next ==
    \/ \E w \in Workers : Starts(w)
    \/ \E w \in Workers : Continues(w)
    \/ BackendChanges

Spec == Init /\ [][Next]_vars

----------------------------------------------------------------------------
(* The creates, the user lookup and the health endpoints under every state *)
(* the cluster reports.                                                    *)

HealthStarts(w) ==
    /\ Free(w)
    /\ \/ \E body \in SampleArticleBodies, t1, t2 \in Readings :
            create_article(w, body, t1, t2)
       \/ \E body \in UserBodies, t1, t2 \in Readings :
            create_user(w, body, t1, t2)
       \/ \E id \in KnownIds : get_user(w, id)
       \/ health_check(w)
       \/ elasticsearch_health(w)

HealthNext ==
    \/ \E w \in Workers : HealthStarts(w)
    \/ \E w \in Workers : CreateArticleReturns(w)
    \/ \E w \in Workers : CreateUserReturns(w)
    \/ \E c \in {"green", "yellow", "red", "down"} : ClusterBecomes(c)

HealthSpec == Init /\ [][HealthNext]_vars

----------------------------------------------------------------------------
(* A store that earlier requests filled, one more request to arrive:       *)
(* document i was stamped i at both readings of its create.                *)

SeedBodies ==
    ArticleBodies \cup
    { [title |-> "Python", content |-> "Elasticsearch article",
       author |-> "B", category |-> "Technology News",
       tags |-> Some(<<"Python 3">>), views |-> Some(7), rating |-> None] }

SeedArticle(body, t) == Save(NewArticle(ArticleCreate(body)), t, t)

Ascending(k) == [i \in 1..k |-> i]
Descending(k) == [i \in 1..k |-> k + 1 - i]

Seeded(k, bodies) ==
    /\ index =
        [i \in 1..k |-> ToDict(SeedArticle(bodies[i], i), ArticleMulti)]
    /\ indexExists \in IF k = 0 THEN BOOLEAN ELSE {TRUE}
    /\ seqNo = [i \in 1..k |-> 1]
    /\ docOrder \in {Ascending(k), Descending(k)}
    /\ users = EmptyIndex
    /\ nextId = k + 1
    /\ cluster = "green"
    /\ last = NoResponse
    /\ prevIndex = index
    /\ wk = [w \in Workers |-> IdleWorker]

----------------------------------------------------------------------------
(* Every PUT body against a filled store, an update run on its own. *)

\* no worker is in a handler
Quiet == \A w \in Workers : wk[w].pc = "idle"

\* every worker being idle, it makes no difference which one a request
\* reaches
FirstWorker == 1

UpdateInit ==
    /\ \E k \in 1..MaxDocs : \E bodies \in [1..k -> ArticleBodies] :
        Seeded(k, bodies)
    /\ pending = [w \in Workers |-> <<>>]
    /\ arrived = MaxRequests - 1
    /\ occ \in BOOLEAN

UpdateNext ==
    \/ /\ Free(FirstWorker)
       /\ \E id \in DOMAIN index, body \in UpdateBodies :
            update_article(FirstWorker, id, body)
    \/ \E t \in Readings : ArticleSave(FirstWorker, t)
    \/ SaveReturns(FirstWorker)

UpdateSpec == UpdateInit /\ [][UpdateNext]_vars

----------------------------------------------------------------------------
(* The article endpoints with the requests handled one after another, on a *)
(* store that earlier creates filled: a request arrives only when no       *)
(* handler is running.                                                     *)

SeqInit ==
    /\ \E k \in 0..MaxDocs : \E bodies \in [1..k -> SampleArticleBodies] :
        Seeded(k, bodies)
    /\ pending = [w \in Workers |-> <<>>]
    /\ arrived = 0
    /\ occ \in BOOLEAN

SeqNext ==
    \/ Quiet /\ Starts(FirstWorker)
    \/ Continues(FirstWorker)
    \/ BackendChanges

SeqSpec == SeqInit /\ [][SeqNext]_vars

----------------------------------------------------------------------------
(* Searches of a filled store. *)

\* no query, an empty one, one of blanks only, one word, two words
Queries == {None, Some(""), Some(" "), Some("python"), Some("python article")}
\* no category, an empty one, a lower-case word, two capitalised words
CategoryParams ==
    {None, Some(""), Some("technology"), Some("Technology News")}
\* no tags, an empty list (a direct call of the service), one tag, two tags
TagParams == {None, Some(<<>>), Some(<<"python">>), Some(<<"es", "python">>)}
Limits == {0, MinLimit, 2, MaxLimit}
Offsets == {0, 1, MaxOffset}

SearchInit ==
    /\ \E k \in 0..MaxDocs : \E bodies \in [1..k -> SeedBodies] :
        Seeded(k, bodies)
    /\ pending = [w \in Workers |-> <<>>]
    /\ arrived = MaxRequests - 1
    /\ occ = FALSE

SearchNext ==
    /\ Free(FirstWorker)
    /\ \E query \in Queries, category \in CategoryParams, tags \in TagParams,
          limit \in Limits, offset \in Offsets :
        search_articles(FirstWorker, query, category, tags, limit, offset)

SearchSpec == SearchInit /\ [][SearchNext]_vars

----------------------------------------------------------------------------
(* The worker processes with the requests they have accepted, all for one  *)
(* stored article.                                                         *)

ConcBodies ==
    { b \in UpdateBodies :
        {f \in ArticleFields : b[f] # None} \in
            { {"views"}, {"category", "rating"} } }

ConcRequests ==
    { Request("update_article", 1, b) : b \in ConcBodies }
    \cup { Request("get_article", 1, <<>>) }

\* the requests a worker has accepted: none, one, or one with a lookup
\* waiting behind it
Backlogs ==
    {<<>>} \cup { <<r>> : r \in ConcRequests }
           \cup { <<r, q>> :
                    r \in ConcRequests,
                    q \in {x \in ConcRequests : x.op = "get_article"} }

\* the event loop of worker w takes up the oldest request it has accepted
StartRequest(w) ==
    /\ pending[w] # <<>>
    /\ LET r == Head(pending[w])
       IN  \/ r.op = "update_article" /\ update_article(w, r.id, r.body)
           \/ r.op = "get_article" /\ get_article(w, r.id)

ConcInit ==
    /\ \E body \in ArticleBodies : Seeded(1, <<body>>)
    /\ pending \in [Workers -> Backlogs]
    /\ arrived = 0
    /\ occ \in BOOLEAN

ConcNext ==
    \E w \in Workers :
        \/ StartRequest(w)
        \/ \E t \in Readings : ArticleSave(w, t)
        \/ SaveReturns(w)

ConcSpec == ConcInit /\ [][ConcNext]_vars

----------------------------------------------------------------------------
(* Properties of the endpoints. *)

Healthy == cluster \in {"green", "yellow"}

\* C1: with the backend reachable, a lookup, an update and a delete of an
\* article id that has no stored document are each answered 404.
C1_MissingArticleAnswers404 ==
    (/\ last.op \in {"get_article", "update_article", "delete_article"}
     /\ Reachable
     /\ last.fetched = None
     /\ ~Stored(prevIndex, last.id))
    => last.status = 404

\* C2: a successful update run on its own stores the body's value in every
\* field the body gives a non-null value for, and leaves every other article
\* field, the id and created_at as they were.
C2_UpdateWritesGivenFieldsOnly ==
    (last.op = "update_article" /\ last.status = 200)
    => /\ Stored(prevIndex, last.id) /\ Stored(index, last.id)
       /\ DOMAIN index = DOMAIN prevIndex
       /\ last.body[1].id = last.id
       /\ ArticleGet(index, last.id).created_at =
            ArticleGet(prevIndex, last.id).created_at
       /\ \A f \in ArticleFields :
            ArticleGet(index, last.id)[f] =
                IF last.payload[f] # None THEN last.payload[f][1]
                ELSE ArticleGet(prevIndex, last.id)[f]

\* an update that writes a zero and an empty list over other values and
\* leaves the fields its body does not name
C2_Witness ==
    /\ last.op = "update_article" /\ last.status = 200
    /\ last.payload.views = Some(0)
    /\ ArticleGet(prevIndex, last.id).views = 100
    /\ last.payload.tags = Some(<<>>)
    /\ ArticleGet(prevIndex, last.id).tags # <<>>
    /\ last.payload.title = None /\ last.payload.category = None
    /\ ArticleGet(index, last.id).views = 0
    /\ ArticleGet(index, last.id).tags = <<>>

\* C3: a create the backend accepts returns a document with a non-empty id
\* and with created_at equal to updated_at.
C3_CreatedEqualsUpdated ==
    (last.op \in {"create_article", "create_user"} /\ last.status = 200)
    => /\ last.body[1].id # NoId
       /\ last.body[1].created_at = last.body[1].updated_at

\* every stored document has updated_at >= created_at
UpdatedNotBeforeCreated ==
    /\ \A id \in DOMAIN index :
        ArticleGet(index, id).updated_at >= ArticleGet(index, id).created_at
    /\ \A id \in DOMAIN users :
        UserGet(users, id).updated_at >= UserGet(users, id).created_at

\* C4: over creates and updates handled one after another, each successful
\* update leaves the stored updated_at strictly greater than the updated_at
\* stored before it, which is the one the update fetched, and every stored
\* document has updated_at >= created_at.
C4_UpdatedAtIncreases ==
    /\ (last.op = "update_article" /\ last.status = 200)
       => ArticleGet(index, last.id).updated_at >
            FromEs(last.fetched[1], ArticleMulti).updated_at
    /\ UpdatedNotBeforeCreated

\* the last delete removed exactly the document of its id
RemovedThatDocument ==
    /\ DOMAIN index = DOMAIN prevIndex \ {last.id}
    /\ \A i \in DOMAIN index : index[i] = prevIndex[i]

\* the last delete found its id stored and removed it, or found none and
\* changed nothing
DeleteReports ==
    IF Stored(prevIndex, last.id)
    THEN last.svc = "ok" /\ RemovedThatDocument
    ELSE last.svc = "none" /\ index = prevIndex

\* a delete that returned True is followed by a delete of the same id
DeletedAgain ==
    /\ last.op = "delete_article" /\ last.svc = "ok"
    /\ last' # last
    /\ last'.op = "delete_article" /\ last'.id = last.id

\* C5: with the backend reachable, deleting an id that has no stored
\* document returns False and leaves the index as it was, however often it
\* is repeated; deleting a stored id returns True and removes that document
\* and no other, and the next delete of the same id returns False.
C5_DeleteIdempotent ==
    /\ []((last.op = "delete_article" /\ Reachable) => DeleteReports)
    /\ [][(DeletedAgain /\ Reachable')
            => (last'.svc = "none" /\ index' = index)]_vars

\* a document was deleted, and a second delete of its id found nothing
\* while another document is still stored
C5_Witness ==
    /\ last.op = "delete_article" /\ last.svc = "none" /\ Reachable
    /\ last.id < nextId /\ ~Stored(index, last.id)
    /\ DOMAIN index # {}

\* C9: GET /health/ answers 200 with status healthy and elasticsearch
\* connected when the cluster reports green or yellow, and 503 otherwise,
\* an unreachable backend included; GET /health/elasticsearch always answers
\* 200, with healthy in the first case and unhealthy in the second.
C9_HealthEndpoints ==
    /\ last.op = "health_check"
       => IF Healthy
          THEN /\ last.status = 200
               /\ last.body =
                    <<[status |-> "healthy", elasticsearch |-> "connected"]>>
          ELSE last.status = 503
    /\ last.op = "elasticsearch_health"
       => /\ last.status = 200
          /\ last.body =
               <<[elasticsearch |->
                    IF Healthy THEN "healthy" ELSE "unhealthy"]>>

\* a health check of a yellow cluster is answered 200
C9_Witness ==
    /\ last.op = "health_check" /\ cluster = "yellow" /\ last.status = 200

----------------------------------------------------------------------------
(* Properties of the search, stated of the list the service returns. *)

SearchReturned == last.op = "search_articles" /\ last.svc = "ok"

\* whether a stored _source carries one of the given tags
SharesTag(d, tags) ==
    "tags" \in DOMAIN d /\ \E i \in 1..Len(d.tags) : d.tags[i] \in Range(tags)

\* C7: every returned document has exactly the given category whenever a
\* category is supplied, and shares a tag with the given tags whenever a
\* non-empty tag list is supplied.
C7_EverySuppliedFilterHolds ==
    SearchReturned
    => \A i \in 1..Len(last.ret) :
        /\ last.payload.category # None
           => last.ret[i].source.category = last.payload.category[1]
        /\ (last.payload.tags # None /\ last.payload.tags[1] # <<>>)
           => SharesTag(last.ret[i].source, last.payload.tags[1])

\* all hits of the last search, unpaged
AllHits ==
    Hits(index, docOrder, last.payload.query, last.payload.category,
         last.payload.tags)

\* C8: a search returns at most limit documents, and they are entries
\* offset+1 .. offset+limit of the ordered list of all hits of the query.
C8_Pagination ==
    SearchReturned
    => LET n == Len(AllHits) - last.payload.offset
       IN  /\ last.payload.limit \in MinLimit..MaxLimit
           /\ Len(last.ret) <= last.payload.limit
           /\ Len(last.ret) =
                IF n < 0 THEN 0 ELSE Min(last.payload.limit, n)
           /\ \A i \in 1..Len(last.ret) :
                /\ last.ret[i].id = AllHits[last.payload.offset + i]
                /\ last.ret[i].source = index[last.ret[i].id]

\* a page that starts after the first hit and ends before the last one
C8_Witness ==
    /\ SearchReturned
    /\ last.payload.offset = 1 /\ last.payload.limit = 1
    /\ Len(AllHits) > 2
    /\ Len(last.ret) = 1

----------------------------------------------------------------------------
(* Properties of the worker processes. *)

\* the last answered request is an update that reached its persist step
Persisted == last.op = "update_article" /\ last.doc # None

\* C6 as stated: every update of the stored article is answered 200, and
\* after each persist step the stored document is the one that step wrote.
C6_AllSucceedLastPersistWins ==
    Persisted
    => /\ last.status = 200
       /\ index[last.id] = ToDict(last.doc[1], ArticleMulti)

\* C6 as amended: a persist is rejected exactly when the client library
\* sends the fetched sequence number and the backend accepted another
\* worker's write of the document after the fetch; a rejected persist stores
\* nothing and its update is answered 500; an accepted one is answered 200
\* and its document is the stored one until the next accepted persist.
C6_LastAcceptedPersistWins ==
    Persisted
    => IF occ /\ last.stale
       THEN last.status = 500 /\ index = prevIndex
       ELSE /\ last.status = 200
            /\ index[last.id] = ToDict(last.doc[1], ArticleMulti)
            /\ \A i \in DOMAIN prevIndex \ {last.id} : index[i] = prevIndex[i]

\* two workers' updates overlapped under a library that sends the fetched
\* sequence number: the one whose write arrived second was rejected, and
\* the stored document is the other one's
C6_Witness ==
    /\ Persisted /\ occ /\ last.stale
    /\ last.status = 500
    /\ index[last.id] # last.fetched[1]
    /\ index[last.id] # ToDict(last.doc[1], ArticleMulti)

\* C10: while a request's backend call is outstanding, a request that has
\* arrived at the same worker can be started.
C10_OutstandingCallBlocksNobody ==
    \A w \in Workers :
        (wk[w].pc \in {"save", "delete"} /\ pending[w] # <<>>)
        => ENABLED StartRequest(w)

====
